---------------------------- MODULE Spec2Model ----------------------------
(***************************************************************************)
(* Stocktaking snapshot lifecycle, record ledger and access-token gate of  *)
(* the bichikuhin inventory server (src/app.js, src/models/index.js).      *)
(*                                                                         *)
(* The committed database is the pair of tables `stocktakings` and         *)
(* `records` (plus `users`).  A statement issued without a transaction     *)
(* option is one atomic step on the committed tables.  A statement issued  *)
(* with { transaction: t } writes into the private write set of t, which   *)
(* becomes visible only when t commits (MySQL/InnoDB, the dialect set in   *)
(* src/models/index.js).                                                   *)
(***************************************************************************)
EXTENDS Integers, Sequences, FiniteSets, TLC

\* ------------------------------------------------------------- bounds
NProc == 2          \* concurrent POST /api/stocktakings handlers
MaxSid == 3         \* largest Stocktaking id handed out by AUTO_INCREMENT
MaxRid == 2         \* largest StockRecord id handed out by AUTO_INCREMENT
MaxNow == 1         \* clock ticks (seconds) the model lets pass
MaxUid == 3         \* largest User id handed out by AUTO_INCREMENT
MaxBid == 1         \* largest Bichikuhin id handed out by AUTO_INCREMENT

\* ------------------------------------------------ program constants
AccessLifetime == 300            \* expiresIn: '5m', in seconds
RefreshLifetime == 604800        \* expiresIn: '7d', in seconds

ACCESS_SECRET == "access_secret_123"
REFRESH_SECRET == "refresh_secret_456"
FORGED_SECRET == "not_the_secret"

\* JavaScript undefined where a string is expected: a claim the token
\* payload lacks, a header the request lacks, an unset environment variable
UNDEFINED == "<undefined>"

\* process.env.CRON_API_KEY when the deployment sets it
CRON_API_KEY == "cron_key"

\* SQL NULL, and a field that the JSON body does not carry (undefined)
NULL == 0
ABSENT == -1

\* Master tables.  No handler of src/app.js writes StorageLocation or Unit:
\* their rows are provisioned in the database.  Bichikuhin is filled by
\* POST /api/bichikuhin and is part of the state (nextBid).
Locations == {1}
Units == {1}
\* an id that resolves to no row of any table
DanglingId == MaxSid + MaxRid + 6

Procs == 1 .. NProc
\* the first handler slot, for runs without concurrent createStocktaking
Single == {1}

VARIABLES
    stocktakings,   \* committed Stocktaking rows: id -> [active]
    records,        \* committed StockRecord rows: id -> [item, loc, unit, qty, expiry, sid]
    users,          \* committed User rows: id -> [name, role, password]
    nextSid,        \* AUTO_INCREMENT counter of Stocktaking
    nextRid,        \* AUTO_INCREMENT counter of StockRecord
    now,            \* wall clock, seconds
    pc,             \* position of each POST /api/stocktakings handler
    req,            \* its request body (copyFromId)
    tx,             \* its transaction t: [state, deact, newId, clones]
    buf,            \* its recordsToCopy
    resp,           \* its HTTP status (0: none sent)
    reply,          \* status and body of the latest answer of the other handlers
    lastCommit,     \* history: id created by the latest committed transaction
    srcAtRead,      \* history: value multiset of the source ledger at the copy read
    raced,          \* history: the handler began while another transaction was open
    srcMoved,       \* history: the source ledger changed between copy read and commit
    cookies,        \* the browser's cookie jar: [accessToken, refreshToken]
    issued,         \* history: tokens of the latest login, and whether logout followed
    reg,            \* each POST /api/register handler: [pc, name, password, status]
    nextUid,        \* AUTO_INCREMENT counter of User
    cronKey,        \* process.env.CRON_API_KEY
    nextBid,        \* AUTO_INCREMENT counter of Bichikuhin
    call,           \* each login / password handler between its read and its write
    parked          \* the record statements that wait for a row lock, oldest first

vars == <<stocktakings, records, users, nextSid, nextRid, now, pc, req, tx,
          buf, resp, reply, lastCommit, srcAtRead, raced, srcMoved,
          cookies, issued, reg, nextUid, cronKey, nextBid, call, parked>>

\* what the POST /api/stocktakings handler never touches
session == <<cookies, issued, reg, nextUid, cronKey, nextBid, call, parked>>

store == <<stocktakings, records, users>>

\* ------------------------------------------------------------ helpers
RECURSIVE SortedSeq(_)
SortedSeq(S) ==
    IF S = {} THEN <<>>
    ELSE LET m == CHOOSE x \in S : \A y \in S : x <= y
         IN  <<m>> \o SortedSeq(S \ {m})

\* (item, location, unit, quantity, expiry) of a row: all but id and snapshot
Val(r) == [item |-> r.item, loc |-> r.loc, unit |-> r.unit,
           qty |-> r.qty, expiry |-> r.expiry]

\* ids of the committed records of snapshot sid
RecordsOf(recs, sid) == {i \in DOMAIN recs : recs[i].sid = sid}

\* multiset of values of the records of snapshot sid: value -> multiplicity
ValueBag(recs, sid) ==
    LET ids == RecordsOf(recs, sid)
        vs == {Val(recs[i]) : i \in ids}
    IN  [v \in vs |-> Cardinality({i \in ids : Val(recs[i]) = v})]

ActiveIds(rows) == {i \in DOMAIN rows : rows[i].active}

\* rows of the Bichikuhin table: every id handed out so far (no handler
\* deletes an item)
Items == 1 .. (nextBid - 1)

\* bcryptjs: hash(secret, 10) draws a random salt and embeds it in the
\* digest; compare(secret, digest) hashes secret with the digest's salt
Salts == {"salt_a", "salt_b"}
BcryptHash(secret, salt) == <<"bcrypt", secret, salt>>
BcryptCompare(secret, digest) == digest = BcryptHash(secret, digest[3])

\* the salts a hash that replaces `digest` can draw: a fresh salt is not the
\* one of the digest it overwrites
FreshSalts(digest) == Salts \ {digest[3]}

\* ------------------------------------------------------------- tokens
NoToken == [key |-> "none", uid |-> 0, name |-> "", role |-> "", exp |-> 0]

\* jwt.sign({ id, name, role }, secret, { expiresIn }) at clock time `at`
JwtSign(uid, name, role, secret, lifetime, at) ==
    [key |-> secret, uid |-> uid, name |-> name, role |-> role,
     exp |-> at + lifetime]

JwtVerifyLate(token, secret, clock) ==
    token.key = secret /\ clock <= token.exp

JwtVerifyEarly(token, secret, clock) ==
    token.key = secret /\ clock + 1 < token.exp

\* jwt.verify(token, secret): signature, then exp against the clock
JwtVerify(token, secret, clock) ==
    token.key = secret /\ clock < token.exp

\* authenticateToken: TRUE when next() runs, FALSE when 401 is sent
AuthenticateToken(token, clock) ==
    /\ token # NoToken
    /\ JwtVerify(token, ACCESS_SECRET, clock)

\* accessToken cookies a request can carry at time `clock`: none, or a token
\* made by generateTokens (or forged with another key) `age` seconds ago
TokenAges == {0, AccessLifetime - 1, AccessLifetime, AccessLifetime + 1}
\* the cookie of a client that has just logged in as the seeded admin
Sessions(clock) == {JwtSign(1, "admin", "admin", ACCESS_SECRET, AccessLifetime, clock)}

Cookies(clock) ==
    {NoToken, JwtSign(1, "admin", "admin", FORGED_SECRET, AccessLifetime, clock)} \cup
    {JwtSign(1, "admin", "admin", ACCESS_SECRET, AccessLifetime, clock - a) : a \in TokenAges}

\* --------------------------------------------------------------- Init
NoTx == [state |-> "none", deact |-> {}, newId |-> 0, clones |-> <<>>]
NoReply == [op |-> "", auth |-> "", status |-> 0, body |-> {}, read |-> {},
            during |-> FALSE]

NoCookies == [accessToken |-> NoToken, refreshToken |-> NoToken]
NoReg == [pc |-> "idle", name |-> "", password |-> "", status |-> 0]
NoUser == [id |-> 0, name |-> "", role |-> "", password |-> BcryptHash("", "")]
NoCall == [pc |-> "idle", token |-> NoToken, user |-> NoUser, secret |-> "",
           fresh |-> ""]
NoFields == [item |-> ABSENT, loc |-> ABSENT, qty |-> ABSENT, expiry |-> ABSENT]

\* sequelize.sync bootstrap: seeded admin, default active stocktaking; the
\* salt of the seeded digest is called salt_a
Bootstrap ==
    /\ stocktakings = (1 :> [active |-> TRUE])
    /\ records = <<>>
    /\ users = (1 :> [name |-> "admin", role |-> "admin",
                      password |-> BcryptHash("password123", "salt_a")])
    /\ nextSid = 2
    /\ nextRid = 1
    /\ now = 0
    /\ pc = [p \in Procs |-> "idle"]
    /\ req = [p \in Procs |-> NULL]
    /\ tx = [p \in Procs |-> NoTx]
    /\ buf = [p \in Procs |-> <<>>]
    /\ resp = [p \in Procs |-> 0]
    /\ reply = NoReply
    /\ lastCommit = 0
    /\ srcAtRead = [p \in Procs |-> <<>>]
    /\ raced = [p \in Procs |-> FALSE]
    /\ srcMoved = [p \in Procs |-> FALSE]
    /\ cookies = NoCookies
    /\ issued = [accessToken |-> NoToken, refreshToken |-> NoToken,
                 loggedOut |-> FALSE]
    /\ reg = [p \in Procs |-> NoReg]
    /\ nextUid = 2
    /\ nextBid = 1
    /\ call = [p \in Procs |-> NoCall]
    /\ parked = <<>>

\* a deployment whose environment sets CRON_API_KEY
Init == Bootstrap /\ cronKey = CRON_API_KEY

\* any deployment: CRON_API_KEY set, or left out of the environment
Environments == {CRON_API_KEY, UNDEFINED}
InitEnv == Bootstrap /\ cronKey \in Environments

Tick ==
    /\ now < MaxNow
    /\ now' = now + 1
    /\ UNCHANGED <<session, stocktakings, records, users, nextSid, nextRid, pc, req,
                   tx, buf, resp, reply, lastCommit, srcAtRead, raced, srcMoved>>

\* ------------------------------------ POST /api/stocktakings (131-172)
InFlight(q) == pc[q] \in {"deact", "insert", "read", "bulk", "commit"}

\* request bodies
Names == {"", "Q2"}
Dates == {"", "2024-06-01"}
CopyFromIds == {ABSENT} \cup (1 .. MaxSid) \cup {DanglingId}

\* JavaScript truthiness of a body field that is absent, null or a number
Truthy(x) == x # ABSENT /\ x # NULL

\* if (!name || !date) of the handler, negated
BodyValidNameOnly(name, date) == name # ""

BodyValid(name, date) == name # "" /\ date # ""

\* authenticateToken, sequelize.transaction() and the name/date check
CreateStart(p, token, name, date, copyFromId) ==
    /\ pc[p] \in {"idle", "done"}
    /\ \A q \in Procs : q < p => InFlight(q)
    /\ nextSid + Cardinality({q \in Procs : pc[q] \in {"deact", "insert"}}) <= MaxSid
    /\ req' = [req EXCEPT ![p] =
                 IF AuthenticateToken(token, now) THEN copyFromId ELSE NULL]
    /\ buf' = [buf EXCEPT ![p] = <<>>]
    /\ srcAtRead' = [srcAtRead EXCEPT ![p] = <<>>]
    /\ raced' = [raced EXCEPT ![p] = \E q \in Procs \ {p} : InFlight(q)]
    /\ IF ~AuthenticateToken(token, now)
       THEN /\ pc' = [pc EXCEPT ![p] = "done"]
            /\ tx' = [tx EXCEPT ![p] = NoTx]
            /\ resp' = [resp EXCEPT ![p] = 401]
       ELSE IF ~BodyValid(name, date)
       THEN \* return inside try: t is neither committed nor rolled back
            /\ pc' = [pc EXCEPT ![p] = "done"]
            /\ tx' = [tx EXCEPT ![p] = [NoTx EXCEPT !.state = "open"]]
            /\ resp' = [resp EXCEPT ![p] = 400]
       ELSE /\ pc' = [pc EXCEPT ![p] = "deact"]
            /\ tx' = [tx EXCEPT ![p] = [NoTx EXCEPT !.state = "open"]]
            /\ resp' = [resp EXCEPT ![p] = 0]
    /\ UNCHANGED <<session, stocktakings, records, users, nextSid, nextRid, now,
                   reply, lastCommit>>
    /\ srcMoved' = [srcMoved EXCEPT ![p] = FALSE]

\* transaction q holds row locks on Stocktaking: it has run its UPDATE
HoldsLocks(q) ==
    tx[q].state = "open" /\ pc[q] \in {"insert", "read", "bulk", "commit"}

NoRowLocks(p) == TRUE

\* InnoDB: UPDATE Stocktaking (no WHERE) locks every row it scans and waits
\* while another open transaction holds a lock on a row of the table
RowLocksFree(p) == \A q \in Procs \ {p} : ~HoldsLocks(q)

\* Stocktaking.update({ active: false }, { where: {}, transaction: t })
DeactivateAll(p) ==
    /\ pc[p] = "deact"
    /\ RowLocksFree(p)
    /\ tx' = [tx EXCEPT ![p].deact = DOMAIN stocktakings]
    /\ pc' = [pc EXCEPT ![p] = "insert"]
    /\ UNCHANGED <<session, stocktakings, records, users, nextSid, nextRid, now, req,
                   buf, resp, reply, lastCommit, srcAtRead, raced, srcMoved>>

\* Stocktaking.create({ name, date, active: true }, { transaction: t })
InsertNew(p) ==
    /\ pc[p] = "insert"
    /\ tx' = [tx EXCEPT ![p].newId = nextSid]
    /\ nextSid' = nextSid + 1
    /\ pc' = [pc EXCEPT ![p] = IF Truthy(req[p]) THEN "read" ELSE "commit"]
    /\ UNCHANGED <<session, stocktakings, records, users, nextRid, now, req, buf,
                   resp, reply, lastCommit, srcAtRead, raced, srcMoved>>

FindAllUnfiltered(recs, sid) ==
    LET ids == SortedSeq(DOMAIN recs)
    IN  [k \in 1 .. Len(ids) |-> recs[ids[k]]]

\* StockRecord.findAll({ where: { StocktakingId: copyFromId }, raw: true }):
\* no transaction option, so one read of the committed table, in id order
FindAllRaw(recs, sid) ==
    LET ids == SortedSeq(RecordsOf(recs, sid))
    IN  [k \in 1 .. Len(ids) |-> recs[ids[k]]]

ReadSource(p) ==
    /\ pc[p] = "read"
    /\ buf' = [buf EXCEPT ![p] = FindAllRaw(records, req[p])]
    /\ srcAtRead' = [srcAtRead EXCEPT ![p] = ValueBag(records, req[p])]
    /\ pc' = [pc EXCEPT ![p] =
                IF Len(FindAllRaw(records, req[p])) > 0 THEN "bulk" ELSE "commit"]
    /\ UNCHANGED <<session, stocktakings, records, users, nextSid, nextRid, now, req,
                   tx, resp, reply, lastCommit, raced, srcMoved>>

CloneRowKeepSnapshot(record, newId) == record

\* recordsToCopy.map: id and entry_timestamp deleted, StocktakingId replaced
CloneRow(record, newId) == [record EXCEPT !.sid = newId]

\* StockRecord.bulkCreate(newRecords, { transaction: t })
BulkCreate(p) ==
    /\ pc[p] = "bulk"
    /\ nextRid + Len(buf[p]) - 1 <= MaxRid
    /\ tx' = [tx EXCEPT ![p].clones =
                [i \in nextRid .. nextRid + Len(buf[p]) - 1 |->
                    CloneRow(buf[p][i - nextRid + 1], tx[p].newId)]]
    /\ nextRid' = nextRid + Len(buf[p])
    /\ pc' = [pc EXCEPT ![p] = "commit"]
    /\ UNCHANGED <<session, stocktakings, records, users, nextSid, now, req, buf,
                   resp, reply, lastCommit, srcAtRead, raced, srcMoved>>

DeactivatedNone(rows, ids) == rows

DeactivatedDropped(rows, ids) == [i \in DOMAIN rows \ ids |-> rows[i]]

\* the rows of the table after the UPDATE of transaction t reaches them
Deactivated(rows, ids) ==
    [i \in DOMAIN rows |-> IF i \in ids THEN [active |-> FALSE] ELSE rows[i]]

\* t.commit() and res.status(201): the write set of t becomes visible at once
Commit(p) ==
    /\ pc[p] = "commit"
    /\ stocktakings' = Deactivated(stocktakings, tx[p].deact) @@
                        (tx[p].newId :> [active |-> TRUE])
    /\ records' = records @@ tx[p].clones
    /\ tx' = [tx EXCEPT ![p] = [NoTx EXCEPT !.state = "commit",
                                            !.newId = tx[p].newId]]
    /\ buf' = [buf EXCEPT ![p] = <<>>]
    /\ resp' = [resp EXCEPT ![p] = 201]
    /\ pc' = [pc EXCEPT ![p] = "done"]
    /\ lastCommit' = tx[p].newId
    /\ srcMoved' = [srcMoved EXCEPT ![p] =
                      Truthy(req[p]) /\ ValueBag(records, req[p]) # srcAtRead[p]]
    /\ srcAtRead' = [srcAtRead EXCEPT ![p] = <<>>]
    /\ UNCHANGED <<session, users, nextSid, nextRid, now, req, reply, raced>>

\* a statement of the try block rejects: catch runs t.rollback(), then 500
StatementFails(p) ==
    /\ pc[p] \in {"deact", "insert", "read", "bulk"}
    /\ tx' = [tx EXCEPT ![p] = [NoTx EXCEPT !.state = "rollback"]]
    /\ buf' = [buf EXCEPT ![p] = <<>>]
    /\ resp' = [resp EXCEPT ![p] = 500]
    /\ pc' = [pc EXCEPT ![p] = "done"]
    /\ UNCHANGED <<session, stocktakings, records, users, nextSid, nextRid, now, req,
                   reply, lastCommit, raced, srcMoved>>
    /\ srcAtRead' = [srcAtRead EXCEPT ![p] = <<>>]

\* t.commit() rejects.  Sequelize marks t finished ('commit') before the
\* rejection reaches the handler and drops its connection, so the write set
\* is lost and the t.rollback() of the catch block throws in its turn:
\* lines 169-170 never run.  The handler's promise rejects; Express 4 then
\* sends nothing (0), Express 5 answers 500 through its error handler.
CommitFails(p) ==
    /\ pc[p] = "commit"
    /\ tx' = [tx EXCEPT ![p] = [NoTx EXCEPT !.state = "commit"]]
    /\ buf' = [buf EXCEPT ![p] = <<>>]
    /\ \E status \in {0, 500} : resp' = [resp EXCEPT ![p] = status]
    /\ pc' = [pc EXCEPT ![p] = "done"]
    /\ srcAtRead' = [srcAtRead EXCEPT ![p] = <<>>]
    /\ UNCHANGED <<session, stocktakings, records, users, nextSid, nextRid, now, req,
                   reply, lastCommit, raced, srcMoved>>

\* ------------------------------------------- single-step handlers
\* why jwt.verify rejected the cookie (the handlers answer 401 for each)
AuthOutcome(token, clock) ==
    IF token = NoToken THEN "missing"
    ELSE IF token.key # ACCESS_SECRET THEN "invalid"
    ELSE IF ~JwtVerify(token, ACCESS_SECRET, clock) THEN "expired"
    ELSE "ok"

\* the answer of a reading handler: status, JSON body, and as history the
\* rows its query returned and whether a transaction held pending writes
\* while the query ran
Answer(op, auth, status, body, read) ==
    [op |-> op, auth |-> auth, status |-> status, body |-> body, read |-> read,
     during |-> \E p \in Procs : HoldsLocks(p)]

\* the answer of a handler that sends a status and reads nothing back
Status(op, auth, status) ==
    [op |-> op, auth |-> auth, status |-> status, body |-> {}, read |-> {},
     during |-> FALSE]

Denied(op, token) == Status(op, AuthOutcome(token, now), 401)

handlerState ==
    <<nextSid, pc, req, tx, buf, resp, lastCommit, srcAtRead, raced, srcMoved,
      session>>

DirtyStocktakings ==
    LET writers == {p \in Procs : HoldsLocks(p)}
        off == UNION {tx[p].deact : p \in writers}
        added == {tx[p].newId : p \in writers} \ {0}
    IN  [i \in DOMAIN stocktakings \cup added |->
            [active |-> IF i \in added THEN TRUE
                        ELSE IF i \in off THEN FALSE
                        ELSE stocktakings[i].active]]

\* rows of Stocktaking that a query outside any transaction returns: the
\* committed rows, never the pending writes of an open transaction
VisibleStocktakings == stocktakings

\* GET /api/stocktakings (120-129): Stocktaking.findAll
ListStocktakings(token) ==
    /\ reply' =
         IF ~AuthenticateToken(token, now) THEN Denied("listStocktakings", token)
         ELSE LET rows == {[id |-> i, active |-> VisibleStocktakings[i].active] :
                              i \in DOMAIN VisibleStocktakings}
              IN  Answer("listStocktakings", "ok", 200, rows, rows)
    /\ UNCHANGED <<store, nextRid, now, handlerState>>

\* associations declared in src/models/index.js (source model, target model)
Associations ==
    {<<"Bichikuhin", "StockRecord">>, <<"StockRecord", "Bichikuhin">>,
     <<"StorageLocation", "StockRecord">>, <<"StockRecord", "StorageLocation">>,
     <<"Unit", "StockRecord">>, <<"StockRecord", "Unit">>,
     <<"Stocktaking", "StockRecord">>, <<"StockRecord", "Stocktaking">>}

\* include: [{ model: Bichikuhin, include: [Unit] }, StorageLocation] on
\* StockRecord: findAll rejects (EagerLoadingError) unless every included
\* model is associated to the model that includes it
RecordIncludesValid ==
    /\ <<"StockRecord", "Bichikuhin">> \in Associations
    /\ <<"Bichikuhin", "Unit">> \in Associations
    /\ <<"StockRecord", "StorageLocation">> \in Associations

\* GET /api/records/:stocktakingId (207-219)
ListBySnapshot(token, sid) ==
    /\ reply' =
         IF ~AuthenticateToken(token, now) THEN Denied("listBySnapshot", token)
         ELSE IF ~RecordIncludesValid
         THEN Status("listBySnapshot", "ok", 500)
         ELSE Answer("listBySnapshot", "ok", 200, RecordsOf(records, sid),
                     RecordsOf(records, sid))
    /\ UNCHANGED <<store, nextRid, now, handlerState>>

\* x-api-key headers of a poller that sends one
ApiKeys == {CRON_API_KEY, "wrong_key"}

\* Stocktaking.findOne({ where: { active: true } }): the first such row
FindOneActive(rows) ==
    IF ActiveIds(rows) = {} THEN {}
    ELSE {CHOOSE i \in ActiveIds(rows) : \A j \in ActiveIds(rows) : i <= j}

\* x-api-key headers of any request: a key, or no header at all
PollerKeys == ApiKeys \cup {UNDEFINED}

\* a key check that lets every request with a header through
KeyAcceptedAny(apiKey, configured) == apiKey # UNDEFINED

\* the key check (177-180), negated: apiKey !== process.env.CRON_API_KEY;
\* a missing header and an unset variable are both undefined
KeyAccepted(apiKey, configured) == apiKey = configured

\* GET /api/records/expired (175-204), no authenticateToken; the answer
\* keeps as history the header that was sent
ListExpired(apiKey, configured) ==
    /\ reply' =
         IF ~KeyAccepted(apiKey, configured)
         THEN Status("listExpired", apiKey, 403)
         ELSE IF FindOneActive(VisibleStocktakings) = {}
         THEN Answer("listExpired", apiKey, 200, {}, {})
         ELSE IF ~RecordIncludesValid
         THEN Answer("listExpired", apiKey, 500, {},
                     FindOneActive(VisibleStocktakings))
         ELSE LET sid == CHOOSE i \in FindOneActive(VisibleStocktakings) : TRUE
                  hits == {i \in RecordsOf(records, sid) :
                              records[i].expiry # NULL /\ records[i].expiry < now}
              IN  Answer("listExpired", apiKey, 200, hits,
                         FindOneActive(VisibleStocktakings))
    /\ UNCHANGED <<store, nextRid, now, handlerState>>

\* request bodies of POST|PUT /api/records: with or without an id; every
\* field given, every field but the item, or none; stocktakingId absent, the
\* seeded snapshot, or the next one (the id of no snapshot until that one is
\* committed)
Unnamed == [item |-> ABSENT, loc |-> 1, qty |-> 2, expiry |-> 20]
Payloads ==
    [id : {ABSENT} \cup (1 .. MaxRid),
     fields : {[item |-> i, loc |-> 1, qty |-> 2, expiry |-> 20] : i \in 1 .. MaxBid}
              \cup {Unnamed, NoFields},
     sid : {ABSENT, 1, 2}]

\* foreign keys to the master tables: NULL, or an existing row
MastersHold(row) ==
    /\ row.item = NULL \/ row.item \in Items
    /\ row.loc = NULL \/ row.loc \in Locations
    /\ row.unit = NULL \/ row.unit \in Units

\* foreign keys created by the associations: NULL, or an existing row
ForeignKeysHold(row, rows) ==
    /\ MastersHold(row)
    /\ row.sid = NULL \/ row.sid \in DOMAIN rows

\* StockRecord.create: an undefined attribute takes the column default
Given(x, default) == IF x = ABSENT THEN default ELSE x
NewRow(b) ==
    [item |-> Given(b.fields.item, NULL), loc |-> Given(b.fields.loc, NULL),
     unit |-> NULL, qty |-> Given(b.fields.qty, 0),
     expiry |-> Given(b.fields.expiry, NULL), sid |-> Given(b.sid, NULL)]

\* StockRecord.update: undefined values are dropped from the SET list
UpdatedRow(row, b) ==
    [item |-> Given(b.fields.item, row.item), loc |-> Given(b.fields.loc, row.loc),
     unit |-> row.unit, qty |-> Given(b.fields.qty, row.qty),
     expiry |-> Given(b.fields.expiry, row.expiry), sid |-> Given(b.sid, row.sid)]

\* rows of Stocktaking locked by an open transaction: those its UPDATE
\* scanned and the one it inserted
LockedRows ==
    UNION {tx[q].deact \cup ({tx[q].newId} \ {0}) : q \in {r \in Procs : HoldsLocks(r)}}

\* rows of StockRecord inserted by an open transaction, locked until it ends
PendingRows ==
    UNION {DOMAIN tx[q].clones : q \in {r \in Procs : HoldsLocks(r)}}

\* InnoDB: the foreign-key check of an INSERT, or of an UPDATE that changes
\* StocktakingId, takes a shared lock on the parent row and waits while a
\* transaction holds that row
MustWait(oldSid, row) ==
    row.sid # NULL /\ row.sid # oldSid /\ row.sid \in LockedRows

\* the statement of body b on row rid waits for a transaction: an UPDATE
\* for the lock of a row that an open transaction inserted, either statement
\* for the lock of its parent row
WaitsForCommit(rid, b, fresh) ==
    IF fresh THEN MustWait(NULL, NewRow(b))
    ELSE \/ rid \in PendingRows
         \/ /\ rid \in DOMAIN records
            /\ MustWait(records[rid].sid, UpdatedRow(records[rid], b))

\* rows of StockRecord locked by the waiting statements: a waiting INSERT
\* has its clustered-index row in place and a waiting UPDATE has locked the
\* row it matched, before the foreign-key check that makes them wait
HeldRows(waiting) == {waiting[i].rid : i \in 1 .. Len(waiting)}

\* the statement of body b on row rid has to wait: for a transaction, or an
\* UPDATE for the row that a waiting statement holds
WaitsFor(rid, b, fresh) ==
    \/ WaitsForCommit(rid, b, fresh)
    \/ ~fresh /\ rid \in HeldRows(parked)

\* the row the statement writes; none when its UPDATE matches no row
Written(rid, b, fresh) ==
    IF fresh THEN {NewRow(b)}
    ELSE IF rid \in DOMAIN records THEN {UpdatedRow(records[rid], b)}
    ELSE {}

\* the statement runs against the committed tables: 200 when the UPDATE
\* matches no row, 500 when a foreign key fails
RunStatement(rid, b, fresh) ==
    IF Written(rid, b, fresh) = {}
    THEN /\ reply' = Status("upsertRecord", "ok", 200)
         /\ UNCHANGED records
    ELSE LET row == CHOOSE r \in Written(rid, b, fresh) : TRUE
         IN  IF ~ForeignKeysHold(row, stocktakings)
             THEN /\ reply' = Status("upsertRecord", "ok", 500)
                  /\ UNCHANGED records
             ELSE /\ records' = IF fresh THEN records @@ (rid :> row)
                                ELSE [records EXCEPT ![rid] = row]
                  /\ reply' = Status("upsertRecord", "ok", 200)

\* one INSERT or UPDATE of StockRecord, with the id InnoDB has handed out
\* already: rejected at once by a master-table key (those constraints are
\* checked before the one on Stocktaking), parked behind a lock, or run.
\* The UPDATE of a row that a waiting statement holds reaches no constraint
\* before it has the row.  At most NProc statements wait at a time.
WriteRecord(rid, b, fresh) ==
    IF rid \notin HeldRows(parked) /\ \E row \in Written(rid, b, fresh) : ~MastersHold(row)
    THEN /\ reply' = Status("upsertRecord", "ok", 500)
         /\ UNCHANGED <<records, parked>>
    ELSE IF WaitsFor(rid, b, fresh)
    THEN /\ Len(parked) < NProc
         /\ parked' = Append(parked, [rid |-> rid, body |-> b, fresh |-> fresh])
         /\ UNCHANGED <<records, reply>>
    ELSE /\ RunStatement(rid, b, fresh)
         /\ UNCHANGED parked

\* what the record and item handlers never touch
lifecycle ==
    <<nextSid, pc, req, tx, buf, resp, lastCommit, srcAtRead, raced, srcMoved>>
browser == <<cookies, issued, reg, nextUid, cronKey>>

\* recordHandler (229-252) behind authenticateToken.  An INSERT takes its
\* AUTO_INCREMENT id before its constraints are checked and does not give it
\* back when it fails.
UpsertRecord(token, b) ==
    /\ ~AuthenticateToken(token, now) \/ Truthy(b.id) \/ nextRid <= MaxRid
    /\ IF ~AuthenticateToken(token, now)
       THEN /\ reply' = Denied("upsertRecord", token)
            /\ UNCHANGED <<records, nextRid, parked>>
       ELSE IF Truthy(b.id)
       THEN /\ UNCHANGED nextRid
            /\ WriteRecord(b.id, b, FALSE)
       ELSE /\ nextRid' = nextRid + 1
            /\ WriteRecord(nextRid, b, TRUE)
    /\ UNCHANGED <<stocktakings, users, now, lifecycle, browser, nextBid, call>>

\* the waiting statements without statement i
Granted(waiting, i) ==
    SubSeq(waiting, 1, i - 1) \o SubSeq(waiting, i + 1, Len(waiting))

\* a waiting statement gets its locks once the transactions that held them
\* have ended and the statements that held its row before it have run; it
\* runs against the rows they left
UpsertResume ==
    \E i \in 1 .. Len(parked) :
        /\ ~WaitsForCommit(parked[i].rid, parked[i].body, parked[i].fresh)
        /\ parked[i].rid \notin HeldRows(SubSeq(parked, 1, i - 1))
        /\ RunStatement(parked[i].rid, parked[i].body, parked[i].fresh)
        /\ parked' = Granted(parked, i)
    /\ UNCHANGED <<stocktakings, users, nextRid, now, lifecycle, browser,
                   nextBid, call>>

\* request bodies of POST /api/bichikuhin
ItemNames == {"", "rice"}

\* POST /api/bichikuhin (279-291): Bichikuhin.create inserts the row, then
\* findByPk with include: [Unit] rejects unless Unit is associated to
\* Bichikuhin, and the catch block answers 500
CreateBichikuhin(token, name) ==
    /\ ~AuthenticateToken(token, now) \/ name = "" \/ nextBid <= MaxBid
    /\ IF ~AuthenticateToken(token, now)
       THEN /\ reply' = Denied("createBichikuhin", token)
            /\ UNCHANGED nextBid
       ELSE IF name = ""
       THEN /\ reply' = Status("createBichikuhin", "ok", 400)
            /\ UNCHANGED nextBid
       ELSE /\ nextBid' = nextBid + 1
            /\ reply' = Status("createBichikuhin", "ok",
                               IF <<"Bichikuhin", "Unit">> \in Associations
                               THEN 201 ELSE 500)
    /\ UNCHANGED <<store, nextRid, now, lifecycle, browser, call, parked>>

\* ---------------------------------- login and password handlers
\* request bodies
Secrets == {"", "password123", "hunter2"}
NewSecrets == {"", "hunter2"}

\* a handler slot is between its read of the User row and its answer
Calling(q) == call[q].pc # "idle"

\* a handler takes the first free slot
SlotFree(p) == ~Calling(p) /\ \A q \in Procs : q < p => Calling(q)

\* the User row as findOne / findByPk return it
UserRow(rows, uid) ==
    [id |-> uid, name |-> rows[uid].name, role |-> rows[uid].role,
     password |-> rows[uid].password]

\* what the login and password handlers never touch
ledgerState ==
    <<stocktakings, records, nextSid, nextRid, pc, req, tx, buf, resp,
      lastCommit, srcAtRead, raced, srcMoved, nextBid, parked>>

\* an async handler without try/catch rejects: Express 4 sends nothing (0),
\* Express 5 answers 500 through its error handler
Unhandled == {0, 500}

\* POST /api/change_password (306-333): authenticateToken, the field check
\* and User.findByPk
ChangePasswordStart(p, token, oldPassword, newPassword) ==
    /\ SlotFree(p)
    /\ IF ~AuthenticateToken(token, now)
       THEN /\ reply' = Denied("changePassword", token)
            /\ UNCHANGED call
       ELSE IF oldPassword = "" \/ newPassword = ""
       THEN /\ reply' = Status("changePassword", "ok", 400)
            /\ UNCHANGED call
       ELSE IF token.uid \notin DOMAIN users
       THEN /\ reply' = Status("changePassword", "ok", 404)
            /\ UNCHANGED call
       ELSE /\ call' = [call EXCEPT ![p] =
                          [pc |-> "change", token |-> NoToken,
                           user |-> UserRow(users, token.uid),
                           secret |-> oldPassword, fresh |-> newPassword]]
            /\ UNCHANGED reply
    /\ UNCHANGED <<store, ledgerState, now, browser>>

\* bcrypt.compare against the row that was read, bcrypt.hash and user.update
ChangePasswordFinish(p) ==
    /\ call[p].pc = "change"
    /\ IF ~BcryptCompare(call[p].secret, call[p].user.password)
       THEN /\ reply' = Status("changePassword", "ok", 401)
            /\ UNCHANGED users
       ELSE /\ \E salt \in FreshSalts(users[call[p].user.id].password) :
                 users' = [users EXCEPT ![call[p].user.id].password =
                             BcryptHash(call[p].fresh, salt)]
            /\ reply' = Status("changePassword", "ok", 200)
    /\ call' = [call EXCEPT ![p] = NoCall]
    /\ UNCHANGED <<stocktakings, records, ledgerState, now, browser>>

\* ------------------------------------------------ session handlers
\* the instants at which a token of the latest login is about to expire or
\* has just expired
Deadlines ==
    {issued.accessToken.exp - 1, issued.accessToken.exp,
     issued.refreshToken.exp - 1, issued.refreshToken.exp}

\* the client, all its requests answered, waits until such an instant
Sleep ==
    /\ issued.accessToken # NoToken
    /\ \A p \in Procs : call[p].pc = "idle" /\ ~InFlight(p) /\ reg[p].pc # "create"
    /\ parked = <<>>
    /\ \E t \in Deadlines : t > now /\ now' = t
    /\ UNCHANGED <<store, ledgerState, reply, session>>

\* User.findOne({ where: { name } })
FindUserByName(rows, name) == {i \in DOMAIN rows : rows[i].name = name}

\* generateTokens (41-45): the access token embeds { id, name, role }, the
\* refresh token { id } only
GenerateTokens(user, at) ==
    [accessToken |-> JwtSign(user.id, user.name, user.role,
                             ACCESS_SECRET, AccessLifetime, at),
     refreshToken |-> JwtSign(user.id, UNDEFINED, UNDEFINED,
                              REFRESH_SECRET, RefreshLifetime, at)]

\* request bodies of POST /api/login and POST /api/register
UserNames == {"", "admin", "bob"}

\* POST /api/login (64-78): User.findOne.  Without a name in the body the
\* query throws, and nothing catches it.
LoginStart(p, name, password) ==
    /\ SlotFree(p)
    /\ now <= MaxNow
    /\ IF name = UNDEFINED
       THEN /\ \E status \in Unhandled : reply' = Status("login", "", status)
            /\ UNCHANGED call
       ELSE IF FindUserByName(users, name) = {}
       THEN /\ reply' = Status("login", "", 401)
            /\ UNCHANGED call
       ELSE /\ call' = [call EXCEPT ![p] =
                          [pc |-> "login", token |-> NoToken,
                           user |-> UserRow(users,
                                      CHOOSE i \in FindUserByName(users, name) : TRUE),
                           secret |-> password, fresh |-> ""]]
            /\ UNCHANGED reply
    /\ UNCHANGED <<store, ledgerState, now, browser>>

\* bcrypt.compare against the row that was read (it throws without a
\* password), generateTokens from that row, and the two cookies
LoginFinish(p) ==
    /\ call[p].pc = "login"
    /\ IF call[p].secret = UNDEFINED
       THEN /\ \E status \in Unhandled : reply' = Status("login", "", status)
            /\ UNCHANGED <<cookies, issued>>
       ELSE IF BcryptCompare(call[p].secret, call[p].user.password)
       THEN LET tokens == GenerateTokens(call[p].user, now)
            IN  /\ cookies' = tokens
                /\ issued' = [accessToken |-> tokens.accessToken,
                              refreshToken |-> tokens.refreshToken,
                              loggedOut |-> FALSE]
                /\ reply' = Status("login", "", 200)
       ELSE /\ reply' = Status("login", "", 401)
            /\ UNCHANGED <<cookies, issued>>
    /\ call' = [call EXCEPT ![p] = NoCall]
    /\ UNCHANGED <<store, ledgerState, now, reg, nextUid, cronKey>>

\* refresh (113): the access token signed from the refresh token's payload
MintedAsAdmin(payload, at) ==
    JwtSign(payload.uid, "admin", "admin", ACCESS_SECRET, AccessLifetime, at)

MintedByRefresh(payload, at) ==
    JwtSign(payload.uid, UNDEFINED, UNDEFINED, ACCESS_SECRET, AccessLifetime, at)

\* status of POST /api/refresh for the refreshToken cookie presented
RefreshOutcomeAlways401(token, clock) ==
    IF token # NoToken /\ JwtVerify(token, REFRESH_SECRET, clock) THEN 200 ELSE 401

RefreshOutcome(token, clock) ==
    IF token = NoToken THEN 401
    ELSE IF ~JwtVerify(token, REFRESH_SECRET, clock) THEN 403
    ELSE 200

\* refreshToken cookies a request can carry: the jar's, the one of the
\* latest login, one signed with another key, none
RefreshCookies ==
    {cookies.refreshToken, issued.refreshToken, NoToken,
     JwtSign(1, UNDEFINED, UNDEFINED, FORGED_SECRET, RefreshLifetime, now)}

\* history: what was wrong with the refreshToken cookie presented
RefreshStanding(token, clock) ==
    IF token = NoToken THEN "missing"
    ELSE IF token.key # REFRESH_SECRET THEN "invalid"
    ELSE IF clock >= token.exp THEN "expired"
    ELSE "ok"

\* POST /api/refresh (106-117); the answer's body holds the token minted
Refresh(token) ==
    /\ IF RefreshOutcome(token, now) = 200
       THEN /\ cookies' = [cookies EXCEPT
                              !.accessToken = MintedByRefresh(token, now)]
            /\ reply' = [Status("refresh", RefreshStanding(token, now), 200)
                            EXCEPT !.body = {MintedByRefresh(token, now)}]
       ELSE /\ reply' = Status("refresh", RefreshStanding(token, now),
                               RefreshOutcome(token, now))
            /\ UNCHANGED cookies
    /\ UNCHANGED <<store, ledgerState, now, issued, reg, nextUid, cronKey, call>>

\* POST /api/logout (366-370): clears the two cookies of the browser
Logout ==
    /\ cookies' = NoCookies
    /\ issued' = [issued EXCEPT !.loggedOut = TRUE]
    /\ reply' = Status("logout", "", 200)
    /\ UNCHANGED <<store, ledgerState, now, reg, nextUid, cronKey, call>>

\* accessToken cookies a request can carry: the jar's, the one of the latest
\* login (kept by the client through logout), none
AccessCookies == {cookies.accessToken, issued.accessToken, NoToken}

\* isAdmin (335-340): TRUE when next() runs, FALSE when 403 is sent
IsAdmin(claims) == claims.role = "admin"

\* PUT /api/users/:id/password (342-364), registered without
\* authenticateToken and without isAdmin: the cookie is not looked at (the
\* slot keeps it as history).  The field check and User.findByPk.
UserIds == {1, 2}
ForceSetPasswordStart(p, token, id, password) ==
    /\ SlotFree(p)
    /\ IF password = ""
       THEN /\ reply' = Status("forceSetPassword", AuthOutcome(token, now), 400)
            /\ UNCHANGED call
       ELSE IF id \notin DOMAIN users
       THEN /\ reply' = Status("forceSetPassword", AuthOutcome(token, now), 404)
            /\ UNCHANGED call
       ELSE /\ call' = [call EXCEPT ![p] =
                          [pc |-> "force", token |-> token,
                           user |-> UserRow(users, id),
                           secret |-> "", fresh |-> password]]
            /\ UNCHANGED reply
    /\ UNCHANGED <<store, ledgerState, now, browser>>

\* bcrypt.hash and user.update
ForceSetPasswordFinish(p) ==
    /\ call[p].pc = "force"
    /\ \E salt \in FreshSalts(users[call[p].user.id].password) :
          users' = [users EXCEPT ![call[p].user.id].password =
                      BcryptHash(call[p].fresh, salt)]
    /\ reply' = Status("forceSetPassword", AuthOutcome(call[p].token, now), 200)
    /\ call' = [call EXCEPT ![p] = NoCall]
    /\ UNCHANGED <<stocktakings, records, ledgerState, now, browser>>

\* a statement of a login or password handler rejects: the catch block of
\* the password routes answers 500, login has none
CallFails(p) ==
    /\ Calling(p)
    /\ IF call[p].pc = "login"
       THEN \E status \in Unhandled : reply' = Status("login", "", status)
       ELSE reply' = Status(IF call[p].pc = "change" THEN "changePassword"
                            ELSE "forceSetPassword", "failed", 500)
    /\ call' = [call EXCEPT ![p] = NoCall]
    /\ UNCHANGED <<store, ledgerState, now, browser>>

\* ------------------------------------ POST /api/register (81-103)
Registering(q) == reg[q].pc = "create"

\* the unique index on User.name (models/index.js:27)
NameIsFree(rows, name) == FindUserByName(rows, name) = {}

\* the field check and the duplicate lookup User.findOne
RegisterStart(p, name, password) ==
    /\ reg[p].pc \in {"idle", "done"}
    /\ \A q \in Procs : q < p => Registering(q)
    /\ nextUid + Cardinality({q \in Procs : Registering(q)}) <= MaxUid
    /\ reg' = [reg EXCEPT ![p] =
                 IF name = "" \/ password = ""
                 THEN [pc |-> "done", name |-> name, password |-> password,
                       status |-> 400]
                 ELSE IF FindUserByName(users, name) # {}
                 THEN [pc |-> "done", name |-> name, password |-> password,
                       status |-> 409]
                 ELSE [pc |-> "create", name |-> name, password |-> password,
                       status |-> 0]]
    /\ UNCHANGED <<store, ledgerState, now, reply, cookies, issued, nextUid,
                   cronKey, call>>

\* bcrypt.hash and User.create; a duplicate name is rejected by the unique
\* index, which the catch block answers with 500
RegisterCreate(p) ==
    /\ Registering(p)
    /\ nextUid' = nextUid + 1
    /\ IF NameIsFree(users, reg[p].name)
       THEN /\ \E salt \in Salts :
                 users' = users @@ (nextUid :>
                             [name |-> reg[p].name, role |-> "user",
                              password |-> BcryptHash(reg[p].password, salt)])
            /\ reg' = [reg EXCEPT ![p].pc = "done", ![p].status = 201]
       ELSE /\ reg' = [reg EXCEPT ![p].pc = "done", ![p].status = 500]
            /\ UNCHANGED users
    /\ UNCHANGED <<stocktakings, records, ledgerState, now, reply, cookies,
                   issued, cronKey, call>>

\* ------------------------------------------------------- next-state
\* request bodies of POST /api/login, with or without its fields
LoginNames == UserNames \cup {UNDEFINED}
LoginSecrets == Secrets \cup {UNDEFINED}

\* every handler of the model, any cookie, any body
Next ==
    \/ Tick
    \/ Sleep
    \/ \E p \in Procs, token \in Cookies(now), name \in Names, date \in Dates,
          copyFromId \in CopyFromIds :
            CreateStart(p, token, name, date, copyFromId)
    \/ \E p \in Procs : DeactivateAll(p)
    \/ \E p \in Procs : InsertNew(p)
    \/ \E p \in Procs : ReadSource(p)
    \/ \E p \in Procs : BulkCreate(p)
    \/ \E p \in Procs : Commit(p)
    \/ \E p \in Procs : StatementFails(p)
    \/ \E p \in Procs : CommitFails(p)
    \/ \E token \in Cookies(now) : ListStocktakings(token)
    \/ \E token \in Cookies(now), sid \in 1 .. MaxSid : ListBySnapshot(token, sid)
    \/ \E apiKey \in PollerKeys : ListExpired(apiKey, cronKey)
    \/ \E token \in Cookies(now), b \in Payloads : UpsertRecord(token, b)
    \/ UpsertResume
    \/ \E token \in Cookies(now), name \in ItemNames : CreateBichikuhin(token, name)
    \/ \E p \in Procs, token \in Cookies(now), o \in Secrets, n \in NewSecrets :
            ChangePasswordStart(p, token, o, n)
    \/ \E p \in Procs : ChangePasswordFinish(p)
    \/ \E p \in Procs, name \in LoginNames, password \in LoginSecrets :
            LoginStart(p, name, password)
    \/ \E p \in Procs : LoginFinish(p)
    \/ \E token \in RefreshCookies : Refresh(token)
    \/ Logout
    \/ \E p \in Procs, token \in AccessCookies, id \in UserIds,
          password \in NewSecrets :
            ForceSetPasswordStart(p, token, id, password)
    \/ \E p \in Procs : ForceSetPasswordFinish(p)
    \/ \E p \in Procs : CallFails(p)
    \/ \E p \in Procs, name \in UserNames, password \in NewSecrets :
            RegisterStart(p, name, password)
    \/ \E p \in Procs : RegisterCreate(p)

Spec == InitEnv /\ [][Next]_vars

\* racing createStocktaking calls of a logged-in client, over a ledger that
\* is filled by records of no item
RaceCopies == {ABSENT, 1}
RacePayloads == {b \in Payloads : b.id = ABSENT /\ b.fields = Unnamed /\ b.sid = 1}
NextRace ==
    \/ \E p \in Procs, token \in Sessions(now), name \in Names, date \in Dates,
          copyFromId \in RaceCopies :
            CreateStart(p, token, name, date, copyFromId)
    \/ \E p \in Procs : DeactivateAll(p)
    \/ \E p \in Procs : InsertNew(p)
    \/ \E p \in Procs : ReadSource(p)
    \/ \E p \in Procs : BulkCreate(p)
    \/ \E p \in Procs : Commit(p)
    \/ \E p \in Procs : StatementFails(p)
    \/ \E p \in Procs : CommitFails(p)
    \/ \E token \in Sessions(now), b \in RacePayloads : UpsertRecord(token, b)
    \/ UpsertResume

SpecRace == Init /\ [][NextRace]_vars

\* readers of the store beside one createStocktaking transaction
NextReaders ==
    \/ \E p \in Single, token \in Sessions(now), name \in Names, date \in Dates,
          copyFromId \in RaceCopies :
            CreateStart(p, token, name, date, copyFromId)
    \/ \E p \in Single : DeactivateAll(p)
    \/ \E p \in Single : InsertNew(p)
    \/ \E p \in Single : ReadSource(p)
    \/ \E p \in Single : BulkCreate(p)
    \/ \E p \in Single : Commit(p)
    \/ \E p \in Single : StatementFails(p)
    \/ \E p \in Single : CommitFails(p)
    \/ \E token \in Sessions(now) : ListStocktakings(token)
    \/ \E token \in Sessions(now), sid \in 1 .. MaxSid : ListBySnapshot(token, sid)
    \/ \E apiKey \in ApiKeys : ListExpired(apiKey, cronKey)
    \/ \E token \in Sessions(now), b \in RacePayloads : UpsertRecord(token, b)
    \/ UpsertResume

SpecReaders == Init /\ [][NextReaders]_vars

\* one createStocktaking at a time, on a database that answers every
\* statement, against record bodies that name no item (the Bichikuhin table
\* is empty): an empty record is created in the seeded snapshot or in none,
\* and an update fills the fields of a record
LedgerPayloads ==
    {b \in Payloads : /\ b.sid \in {ABSENT, 1}
                      /\ IF b.id = ABSENT THEN b.fields = NoFields
                         ELSE b.fields = Unnamed /\ b.sid = ABSENT}
NextLedger ==
    \/ \E p \in Single, token \in Sessions(now), name \in Names, date \in Dates,
          copyFromId \in CopyFromIds :
            CreateStart(p, token, name, date, copyFromId)
    \/ \E p \in Single : DeactivateAll(p)
    \/ \E p \in Single : InsertNew(p)
    \/ \E p \in Single : ReadSource(p)
    \/ \E p \in Single : BulkCreate(p)
    \/ \E p \in Single : Commit(p)
    \/ \E token \in Sessions(now), b \in LedgerPayloads : UpsertRecord(token, b)
    \/ UpsertResume

SpecLedger == Init /\ [][NextLedger]_vars

\* the item and record routes beside one createStocktaking at a time: a
\* record of any fields is created in the seeded snapshot or in none, and
\* the first record is updated, also to another snapshot
CatalogPayloads ==
    {b \in Payloads : IF b.id = ABSENT THEN b.sid # 2
                      ELSE b.id = 1 /\ b.fields.item = ABSENT}
NextCatalog ==
    \/ \E p \in Single, token \in Sessions(now), name \in Names, date \in Dates,
          copyFromId \in RaceCopies :
            CreateStart(p, token, name, date, copyFromId)
    \/ \E p \in Single : DeactivateAll(p)
    \/ \E p \in Single : InsertNew(p)
    \/ \E p \in Single : ReadSource(p)
    \/ \E p \in Single : BulkCreate(p)
    \/ \E p \in Single : Commit(p)
    \/ \E token \in Sessions(now), name \in ItemNames : CreateBichikuhin(token, name)
    \/ \E token \in Sessions(now), b \in CatalogPayloads : UpsertRecord(token, b)
    \/ UpsertResume

SpecCatalog == Init /\ [][NextCatalog]_vars

\* the session-protected handlers under every cookie, as the clock advances,
\* over a database that answers every statement; snapshots are created
\* without copy and the records belong to no snapshot
AuthCopies == {ABSENT}
AuthSids == {1}
AuthPayloads ==
    {b \in Payloads : b.id \in {ABSENT, 1} /\ b.fields = Unnamed /\ b.sid = ABSENT}
NextAuth ==
    \/ Tick
    \/ \E p \in Single, token \in Cookies(now), name \in Names, date \in Dates,
          copyFromId \in AuthCopies :
            CreateStart(p, token, name, date, copyFromId)
    \/ \E p \in Single : DeactivateAll(p)
    \/ \E p \in Single : InsertNew(p)
    \/ \E p \in Single : Commit(p)
    \/ \E token \in Cookies(now) : ListStocktakings(token)
    \/ \E token \in Cookies(now), sid \in AuthSids : ListBySnapshot(token, sid)
    \/ \E token \in Cookies(now), b \in AuthPayloads : UpsertRecord(token, b)
    \/ \E p \in Single, token \in Cookies(now), o \in Secrets, n \in NewSecrets :
            ChangePasswordStart(p, token, o, n)
    \/ \E p \in Single : ChangePasswordFinish(p)

SpecAuth == Init /\ [][NextAuth]_vars

\* login, refresh and logout of one browser, beside registrations, as the
\* clock reaches the expiry instants of its tokens
NextSession ==
    \/ Tick
    \/ Sleep
    \/ \E p \in Single, name \in LoginNames, password \in LoginSecrets :
            LoginStart(p, name, password)
    \/ \E p \in Single : LoginFinish(p)
    \/ \E p \in Single : CallFails(p)
    \/ \E token \in RefreshCookies : Refresh(token)
    \/ Logout
    \/ \E token \in AccessCookies : ListStocktakings(token)
    \/ \E p \in Single, name \in UserNames, password \in NewSecrets :
            RegisterStart(p, name, password)
    \/ \E p \in Single : RegisterCreate(p)

SpecSession == Init /\ [][NextSession]_vars

\* concurrent logins, password changes and password resets
NextPasswords ==
    \/ \E p \in Procs, name \in LoginNames, password \in LoginSecrets :
            LoginStart(p, name, password)
    \/ \E p \in Procs : LoginFinish(p)
    \/ \E p \in Procs, token \in AccessCookies, o \in Secrets, n \in NewSecrets :
            ChangePasswordStart(p, token, o, n)
    \/ \E p \in Procs : ChangePasswordFinish(p)
    \/ \E p \in Procs, token \in AccessCookies, id \in UserIds,
          password \in NewSecrets :
            ForceSetPasswordStart(p, token, id, password)
    \/ \E p \in Procs : ForceSetPasswordFinish(p)
    \/ \E p \in Procs : CallFails(p)

SpecPasswords == Init /\ [][NextPasswords]_vars

\* concurrent registrations
NextRegister ==
    \/ \E p \in Procs, name \in UserNames, password \in NewSecrets :
            RegisterStart(p, name, password)
    \/ \E p \in Procs : RegisterCreate(p)
    \/ \E p \in Single, name \in UserNames, password \in Secrets :
            LoginStart(p, name, password)
    \/ \E p \in Single : LoginFinish(p)

SpecRegister == Init /\ [][NextRegister]_vars

\* the poller route in any deployment, beside a logged-in browser that fills
\* the ledger and creates snapshots, as the clock passes expiry dates
PollerPayloads ==
    {b \in Payloads : b.id = ABSENT /\ b.fields = Unnamed /\ b.sid # ABSENT}
NextPoller ==
    \/ Sleep
    \/ \E p \in Single : LoginStart(p, "admin", "password123")
    \/ \E p \in Single : LoginFinish(p)
    \/ \E p \in Single, token \in Sessions(now), name \in Names, date \in Dates,
          copyFromId \in AuthCopies :
            CreateStart(p, token, name, date, copyFromId)
    \/ \E p \in Single : DeactivateAll(p)
    \/ \E p \in Single : InsertNew(p)
    \/ \E p \in Single : Commit(p)
    \/ \E token \in Sessions(now), b \in PollerPayloads : UpsertRecord(token, b)
    \/ UpsertResume
    \/ \E apiKey \in PollerKeys : ListExpired(apiKey, cronKey)

SpecPoller == InitEnv /\ [][NextPoller]_vars

\* ------------------------------------------------------------ claims
\* the step in which the transaction of handler p commits and 201 is sent
CommitStep(p) == pc[p] = "commit" /\ pc'[p] = "done" /\ resp'[p] = 201

NoneInFlight == \A p \in Procs : ~InFlight(p)

\* C1: in every committed state exactly one Stocktaking is active, and right
\* after a createStocktaking commits it is the snapshot that call created.
C1_ExactlyOneActive ==
    /\ [](Cardinality(ActiveIds(stocktakings)) = 1)
    /\ [][\A p \in Procs : CommitStep(p) =>
              ActiveIds(stocktakings') = {tx[p].newId}]_vars

\* two snapshots were created over a ledger that holds records, one by copy
C1_Witness ==
    /\ Cardinality(DOMAIN stocktakings) = 3
    /\ \E i \in DOMAIN stocktakings : i # 1 /\ RecordsOf(records, i) # {}
    /\ ActiveIds(stocktakings) = {lastCommit}

\* C3: once racing createStocktaking calls have all finished, exactly one
\* Stocktaking is active.
C3_RaceLeavesOneActive ==
    (NoneInFlight /\ \E p \in Procs : raced[p] /\ resp[p] = 201)
        => Cardinality(ActiveIds(stocktakings)) = 1

\* both handlers committed, the second having begun while the first was open
C3_Witness ==
    /\ NoneInFlight
    /\ \A p \in Procs : resp[p] = 201
    /\ \E p \in Procs : raced[p]
    /\ Cardinality(DOMAIN stocktakings) = 3

\* C4: after racing createStocktaking calls the active snapshot is the one
\* of the last committer; a commit leaves every earlier snapshot in the
\* store, inactive, with its records as they were.
C4_LastCommitterWins ==
    /\ [](lastCommit # 0 => ActiveIds(stocktakings) = {lastCommit})
    /\ [][\A p \in Procs : CommitStep(p) =>
              /\ \A i \in DOMAIN stocktakings :
                    i \in DOMAIN stocktakings' /\ ~stocktakings'[i].active
              /\ \A r \in DOMAIN records :
                    r \in DOMAIN records' /\ records'[r] = records[r]]_vars

\* two racing copies committed; the earlier committer's snapshot keeps its
\* clones and is inactive
C4_Witness ==
    \E p, q \in Procs :
        /\ p # q /\ raced[q] /\ resp[p] = 201 /\ resp[q] = 201
        /\ pc[p] = "done" /\ pc[q] = "done"
        /\ tx[q].newId = lastCommit
        /\ RecordsOf(records, tx[p].newId) # {}
        /\ ~stocktakings[tx[p].newId].active

\* C2: no reader sees zero or two active snapshots, and nothing of a
\* snapshot whose transaction is still open (its row, or any of its clones)
\* is visible outside that transaction.
C2_ReadersSeeCommitted ==
    /\ (reply.op = "listStocktakings" /\ reply.status = 200)
          => Cardinality({r \in reply.read : r.active}) = 1
    /\ (reply.op = "listExpired" /\ reply.status # 403) => reply.read # {}
    /\ \A p \in Procs : (InFlight(p) /\ tx[p].newId # 0) =>
          /\ tx[p].newId \notin DOMAIN VisibleStocktakings
          /\ RecordsOf(records, tx[p].newId) = {}

\* listStocktakings answered while a transaction held its deactivation, its
\* new row and pending clones
C2_Witness ==
    /\ reply.op = "listStocktakings" /\ reply.status = 200 /\ reply.during
    /\ \E p \in Procs : pc[p] = "commit" /\ DOMAIN tx[p].clones # {}

\* C5: when createStocktaking with copyFromId commits, the records of the
\* new snapshot are a one-to-one value copy of the source ledger as read,
\* under fresh ids, all referring to the new snapshot.
C5_CopyIsValueCopy ==
    [][\A p \in Procs : (CommitStep(p) /\ Truthy(req[p])) =>
          /\ ValueBag(records', tx[p].newId) = srcAtRead[p]
          /\ RecordsOf(records', tx[p].newId) \cap DOMAIN records = {}
          /\ \A i \in DOMAIN records' \ DOMAIN records :
                records'[i].sid = tx[p].newId]_vars

\* a copy committed although an upsertRecord changed the source ledger
\* between the copy read and the commit
C5_Witness ==
    \E p \in Procs :
        /\ pc[p] = "done" /\ resp[p] = 201 /\ Truthy(req[p]) /\ srcMoved[p]
        /\ RecordsOf(records, tx[p].newId) # {}

\* C6: a failing step of createStocktaking leaves the committed store as it
\* was and the caller is answered 500.
C6_FailureRollsBack ==
    [][\A p \in Procs : (StatementFails(p) \/ CommitFails(p)) =>
          (store' = store /\ resp'[p] = 500)]_vars

\* C7: createStocktaking whose copyFromId names no Stocktaking commits an
\* active, empty snapshot, deactivates the others and answers 201.
C7_MissingSourceStillCreates ==
    [][\A p \in Procs :
          ( /\ InFlight(p) /\ pc'[p] = "done"
            /\ Truthy(req[p]) /\ req[p] \notin DOMAIN stocktakings
            /\ ~StatementFails(p) /\ ~CommitFails(p) ) =>
          ( /\ resp'[p] = 201
            /\ ActiveIds(stocktakings') = {tx[p].newId}
            /\ RecordsOf(records', tx[p].newId) = {}
            /\ \A i \in ActiveIds(stocktakings) : ~stocktakings'[i].active )]_vars

\* a copy from a missing snapshot was answered 201 over a non-empty ledger
C7_Witness ==
    \E p \in Procs :
        /\ pc[p] = "done" /\ resp[p] = 201 /\ req[p] = DanglingId
        /\ records # <<>>
        /\ stocktakings[tx[p].newId].active
        /\ RecordsOf(records, tx[p].newId) = {}

\* C8: no step changes the Stocktaking reference of an existing StockRecord.
C8_SnapshotNeverChanges ==
    [][\A i \in DOMAIN records : records'[i].sid = records[i].sid]_vars

\* C9: every StockRecord refers to an existing Stocktaking, Item,
\* StorageLocation and Unit.
C9_ReferencesResolve ==
    \A i \in DOMAIN records :
        /\ records[i].sid \in DOMAIN stocktakings
        /\ records[i].item \in Items
        /\ records[i].loc \in Locations
        /\ records[i].unit \in Units

\* the three ways a cookie fails: absent, signed with another key, or
\* presented at or after its expiry instant
Unauthenticated(token, clock) ==
    token = NoToken \/ token.key # ACCESS_SECRET \/ clock >= token.exp

\* the cookies that must be refused now
BadCookies == {token \in Cookies(now) : Unauthenticated(token, now)}

\* C10: a session-protected handler called with a missing, badly signed or
\* expired access token answers 401 and leaves Stocktaking, StockRecord and
\* User rows unchanged (createStocktaking opens no transaction).  Each
\* conjunct selects the steps of one handler by the answer they write; such
\* a step is a refusal that leaves the store alone, or it is the step of no
\* request that carries a bad cookie.
C10_BadTokenIsRefused ==
    [][/\ reply' = reply =>
            \A p \in Single :
                \/ (resp'[p] = 401 /\ pc'[p] = "done" /\ tx'[p].state = "none"
                    /\ store' = store)
                \/ \A token \in BadCookies, name \in Names, date \in Dates,
                      c \in AuthCopies : ~CreateStart(p, token, name, date, c)
       /\ reply'.op = "upsertRecord" =>
            \/ (reply'.status = 401 /\ store' = store)
            \/ \A token \in BadCookies, b \in AuthPayloads : ~UpsertRecord(token, b)
       /\ reply'.op = "listStocktakings" =>
            \/ (reply'.status = 401 /\ reply'.body = {} /\ store' = store)
            \/ \A token \in BadCookies : ~ListStocktakings(token)
       /\ reply'.op = "listBySnapshot" =>
            \/ (reply'.status = 401 /\ reply'.body = {} /\ store' = store)
            \/ \A token \in BadCookies, sid \in AuthSids : ~ListBySnapshot(token, sid)
       /\ reply'.op = "changePassword" =>
            \/ (reply'.status = 401 /\ store' = store)
            \/ \A p \in Single, token \in BadCookies, o \in Secrets,
                  n \in NewSecrets : ~ChangePasswordStart(p, token, o, n)]_vars

\* an expired cookie was refused on upsertRecord over a ledger with records,
\* after an accepted changePassword
C10_Witness ==
    /\ reply.op = "upsertRecord" /\ reply.status = 401 /\ reply.auth = "expired"
    /\ records # <<>>
    /\ ~BcryptCompare("password123", users[1].password)


\* C11: forceSetPassword changes a password digest only for a caller whose
\* access token is valid and carries role admin; a caller without a valid
\* token is answered 401, one whose role is not admin 403, and in both
\* cases no digest changes.
C11_OnlyAdminResets ==
    [][\A p \in Procs : ForceSetPasswordFinish(p) =>
          IF ~AuthenticateToken(call[p].token, now)
          THEN reply'.status = 401 /\ users' = users
          ELSE IF ~IsAdmin(call[p].token)
          THEN reply'.status = 403 /\ users' = users
          ELSE TRUE]_vars

\* C12: refresh answers 401 without a refresh token, 403 for one that is
\* badly signed or presented at or after its expiry instant, and mints an
\* access token only for a valid, unexpired one; on 401 and 403 no access
\* token is issued.
C12_RefreshOutcomes ==
    [][reply'.op = "refresh" =>
          \A token \in RefreshCookies : Refresh(token) =>
              /\ token = NoToken =>
                    reply'.status = 401
              /\ (token # NoToken
                    /\ (token.key # REFRESH_SECRET \/ now >= token.exp)) =>
                    reply'.status = 403
              /\ (token # NoToken /\ token.key = REFRESH_SECRET
                    /\ now < token.exp) =>
                    /\ reply'.status = 200
                    /\ reply'.body = {cookies'.accessToken}
                    /\ AuthenticateToken(cookies'.accessToken, now)
              /\ reply'.status \in {401, 403} =>
                    (reply'.body = {} /\ cookies' = cookies)]_vars

\* the refresh token of a login was refused at its expiry instant, having
\* been accepted before
C12_Witness ==
    /\ reply.op = "refresh" /\ reply.status = 403 /\ reply.auth = "expired"
    /\ now = issued.refreshToken.exp
    /\ cookies.accessToken.role = UNDEFINED

\* C13: the access token of a login carries the id, name and role of the
\* user; the access token minted by refresh carries the user id only, so
\* isAdmin refuses it even for a user whose role is admin.
C13_RefreshedTokenHasNoRole ==
    [][/\ (reply'.op = "login" /\ reply'.status = 200) =>
            \E uid \in DOMAIN users :
                /\ cookies'.accessToken.uid = uid
                /\ cookies'.accessToken.name = users[uid].name
                /\ cookies'.accessToken.role = users[uid].role
                /\ cookies'.refreshToken.uid = uid
                /\ cookies'.refreshToken.role = UNDEFINED
       /\ (reply'.op = "refresh" /\ reply'.status = 200) =>
            \A token \in RefreshCookies : Refresh(token) =>
                /\ cookies'.accessToken.uid = token.uid
                /\ cookies'.accessToken.name = UNDEFINED
                /\ cookies'.accessToken.role = UNDEFINED
                /\ ~IsAdmin(cookies'.accessToken)]_vars

\* the admin logged in with a token of role admin, and the token the jar
\* holds after refresh is accepted by authenticateToken and refused by isAdmin
C13_Witness ==
    /\ reply.op = "refresh" /\ reply.status = 200
    /\ IsAdmin(issued.accessToken)
    /\ cookies.accessToken.uid = issued.accessToken.uid
    /\ users[cookies.accessToken.uid].role = "admin"
    /\ AuthenticateToken(cookies.accessToken, now)
    /\ ~IsAdmin(cookies.accessToken)

\* C17: logout changes no row of the store, and a token issued by login is
\* accepted at every instant before its expiry and refused from its expiry
\* instant on, whether or not logout was called since.
C17_LogoutRevokesNothing ==
    [][/\ Logout => store' = store
       /\ (reply'.op = "listStocktakings" /\ issued.accessToken # NoToken) =>
            (ListStocktakings(issued.accessToken) =>
                /\ now < issued.accessToken.exp => reply'.status = 200
                /\ now >= issued.accessToken.exp => reply'.status = 401)
       /\ (reply'.op = "refresh" /\ issued.refreshToken # NoToken) =>
            (Refresh(issued.refreshToken) =>
                /\ now < issued.refreshToken.exp => reply'.status = 200
                /\ now >= issued.refreshToken.exp => reply'.status = 403)]_vars

\* after logout emptied the jar, the access token of the login was accepted
\* one second before its expiry
C17_Witness ==
    /\ issued.loggedOut /\ cookies.accessToken = NoToken
    /\ reply.op = "listStocktakings" /\ reply.status = 200
    /\ now = issued.accessToken.exp - 1


\* C16: no two users ever share a name; a register call that reaches
\* User.create while its name is held by an existing user is answered 409
\* and creates no user; every user that register creates has role user.
C16_RegisterConflictIs409 ==
    /\ [](\A i, j \in DOMAIN users : users[i].name = users[j].name => i = j)
    /\ [][\A p \in Procs : RegisterCreate(p) =>
              /\ ~NameIsFree(users, reg[p].name) =>
                    (reg'[p].status = 409 /\ users' = users)
              /\ \A i \in DOMAIN users' \ DOMAIN users :
                    users'[i].role = "user"]_vars

\* C18: createStocktaking with an empty or missing name or date answers 400
\* and writes nothing: Stocktaking rows, the active flag and the ledger are
\* as before the call.
C18_InvalidBodyWritesNothing ==
    [][\A p \in Single :
          (pc[p] \in {"idle", "done"} /\ <<pc, resp, tx>>' # <<pc, resp, tx>>) =>
              \/ (resp'[p] = 400 /\ pc'[p] = "done" /\ store' = store)
              \/ \A token \in Sessions(now), name \in Names, date \in Dates,
                    c \in CopyFromIds :
                      (name = "" \/ date = "") =>
                          ~CreateStart(p, token, name, date, c)]_vars

\* a call without name or date was answered 400 over a store with two
\* snapshots and a record
C18_Witness ==
    \E p \in Single :
        /\ pc[p] = "done" /\ resp[p] = 400
        /\ Cardinality(DOMAIN stocktakings) >= 2
        /\ records # <<>>

\* C19: when a createStocktaking handler has answered, the transaction it
\* opened is finished, by commit or by rollback.
C19_TransactionsFinish ==
    \A p \in Procs : pc[p] = "done" => tx[p].state # "open"


\* C14: listExpired called with an x-api-key that differs from the
\* configured secret answers 403 with no record, whatever the store holds
\* and whatever cookies the caller has.
C14_WrongKeyIsForbidden ==
    [][reply'.op = "listExpired" =>
          \/ (reply'.status = 403 /\ reply'.body = {} /\ store' = store)
          \/ \A apiKey \in PollerKeys :
                apiKey # cronKey => ~ListExpired(apiKey, cronKey)]_vars

\* a wrong key was refused although the browser holds a valid session and
\* the active snapshot holds an expired record
C14_Witness ==
    /\ reply.op = "listExpired" /\ reply.status = 403
    /\ reply.auth = "wrong_key" /\ cronKey = CRON_API_KEY
    /\ AuthenticateToken(cookies.accessToken, now)
    /\ \E i \in DOMAIN records :
          /\ records[i].sid \in ActiveIds(stocktakings)
          /\ records[i].expiry # NULL /\ records[i].expiry < now

\* the records listExpired has to return: those of the active snapshot
\* whose expiry date is set and before now
ExpiredOfActive ==
    {i \in DOMAIN records :
        /\ records[i].sid \in ActiveIds(stocktakings)
        /\ records[i].expiry # NULL /\ records[i].expiry < now}

\* C15: listExpired called with the configured key answers 200 with exactly
\* the records of the active snapshot whose expiry date is set and strictly
\* before now.
C15_ListExpiredReturnsExpired ==
    [][(reply'.op = "listExpired" /\ cronKey # UNDEFINED) =>
          (ListExpired(cronKey, cronKey) =>
              (reply'.status = 200 /\ reply'.body = ExpiredOfActive))]_vars

\* C20: a listExpired request without an x-api-key header is answered 403
\* in every deployment, also when no secret is configured.
C20_NoHeaderIsForbidden ==
    [][reply'.op = "listExpired" =>
          (ListExpired(UNDEFINED, cronKey) => reply'.status = 403)]_vars

=============================================================================
